---- MODULE Spec2Model ----
(***************************************************************************)
(* Model of the blog index builder (getStaticProps of pages/blog.tsx) and  *)
(* of the blog banner (BlogBanner of components/blog-banner.tsx, used by   *)
(* BlogLayout) of the personal-website repository.                         *)
(*                                                                         *)
(* Text is modelled as TLA+ strings where it is only compared or           *)
(* concatenated, and as sequences of tokens (TLA+ strings whose            *)
(* concatenation is the text) where the code searches inside it.           *)
(* Time values are counted in days since 1970-01-01 instead of             *)
(* milliseconds: publishedAt carries a date without time of day, so every  *)
(* time value of the code is a whole number of days, and the constant      *)
(* factor 86400000 does not fit the integers of the model checker.         *)
(***************************************************************************)
EXTENDS Integers, Sequences, FiniteSets, TLC

VARIABLES
    pc,          \* position of getStaticProps: "await", "loaded", "done",
                 \* "failed" when it threw; "idle" while no index is built
    loaded,      \* the array the content loader resolves to
    blogPosts,   \* the local blogPosts of getStaticProps (the loader's array)
    props,       \* the value returned by getStaticProps: [groups |-> ...]
    frontMatter, \* frontmatter of the post whose page / banner is rendered
    view,        \* what was rendered: "none", "banner", "banner-old",
                 \* "both" (banners), "page", "page-failed"
    dom,         \* what BlogBanner rendered
    domOld,      \* what the older BlogBanner rendered beside it
    page,        \* the header BlogLayout rendered: title and date
    run,         \* the number of the current build of the index page
    first,       \* the props the first build returned
    initialColorMode, \* the color mode of the theme configuration
    colorMode,   \* the color mode ChakraProvider displays
    localStorage, \* the item "chakra-ui-color-mode" of window.localStorage
    cookie,      \* the cookie "chakra-ui-color-mode"
    mounted,     \* App is mounted in the browser
    toggles,     \* the number of clicks on the ColorModeSwitcher so far
    route,       \* the route the Router shows
    routeChange, \* a route change is under way
    scrollTop,   \* document.body.scrollTop
    scrollBefore \* history: document.body.scrollTop as the handler of the
                 \* last routeChangeComplete found it, -1 before the first

\* the state of the App in the browser
appVars ==
    <<initialColorMode, colorMode, localStorage, cookie, mounted, toggles,
      route, routeChange, scrollTop, scrollBefore>>

vars ==
    <<pc, loaded, blogPosts, props, frontMatter, view, dom, domOld, page,
      run, first, appVars>>

\* ---------------------------------------------------------------------
\* Bounds
\* ---------------------------------------------------------------------

\* largest number of posts the content loader returns
MaxPosts == 3

\* largest number of builds of the index page
MaxRuns == 2

\* largest number of clicks on the ColorModeSwitcher
MaxToggles == 2

\* largest scroll position of the document body
MaxScroll == 2

\* publishedAt values of the posts, as the fields of "yyyy-MM-dd"
Dates ==
    { <<2021, 7, 14>>, <<2021, 8, 9>>, <<2021, 8, 31>>, <<2021, 10, 7>>,
      <<2022, 3, 3>>, <<2022, 8, 1>>, <<2022, 9, 12>> }

\* a publishedAt that names no day: "2021-02-30"
BadDates == { <<2021, 2, 30>> }

\* the publishedAt of a frontmatter without a date: undefined
NoDate == <<>>

Slugs == <<"post-1", "post-2", "post-3", "post-4", "post-5">>

\* an optional string prop: undefined, or a string given as its tokens
Undefined == [def |-> FALSE, str |-> <<>>]
Str(tokens) == [def |-> TRUE, str |-> tokens]

\* JavaScript truthiness of an optional string: defined and not ""
Truthy(v) == v.def /\ v.str # <<>>

\* the title of a post that has one
PostTitle == Str(<<"Typing CSS Modules">>)

\* a JavaScript number: NaN or an integer
NaN == [nan |-> TRUE, val |-> 0]
Num(n) == [nan |-> FALSE, val |-> n]

\* a - b on numbers
Minus(a, b) == IF a.nan \/ b.nan THEN NaN ELSE Num(a.val - b.val)

\* the outcome of a call: a value, or an exception thrown
Ok(v) == [threw |-> FALSE, value |-> v, error |-> ""]
Throw(e) == [threw |-> TRUE, value |-> <<>>, error |-> e]

\* ---------------------------------------------------------------------
\* date-fns / Date, as used by blog.tsx
\* ---------------------------------------------------------------------

\* days since 1970-01-01 of the civil date y-m-d (proleptic Gregorian)
DaysFromCivil(y, m, d) ==
    LET yy  == IF m <= 2 THEN y - 1 ELSE y
        era == yy \div 400
        yoe == yy - era * 400
        mp  == IF m > 2 THEN m - 3 ELSE m + 9
        doy == (153 * mp + 2) \div 5 + d - 1
        doe == yoe * 365 + yoe \div 4 - yoe \div 100 + doy
    IN  era * 146097 + doe - 719468

\* the civil date <<y, m, d>> of a day count
CivilFromDays(z) ==
    LET zz  == z + 719468
        era == zz \div 146097
        doe == zz - era * 146097
        yoe == (doe - doe \div 1460 + doe \div 36524 - doe \div 146096) \div 365
        doy == doe - (365 * yoe + yoe \div 4 - yoe \div 100)
        mp  == (5 * doy + 2) \div 153
        d   == doy - (153 * mp + 2) \div 5 + 1
        m   == IF mp < 10 THEN mp + 3 ELSE mp - 9
        y   == yoe + era * 400
    IN  << IF m <= 2 THEN y + 1 ELSE y, m, d >>

\* the number of days of month m of year y
DaysInMonth(y, m) ==
    IF m = 2
    THEN IF y % 4 = 0 /\ (y % 100 # 0 \/ y % 400 = 0) THEN 29 ELSE 28
    ELSE IF m \in {4, 6, 9, 11} THEN 30 ELSE 31

\* new Date(NaN)
InvalidDate == [valid |-> FALSE, time |-> 0]

\* the argument names a day of the calendar
IsCalendarDay(s) ==
    /\ Len(s) = 3
    /\ s[2] \in 1..12
    /\ s[3] \in 1..DaysInMonth(s[1], s[2])

\* parseISO reading the day as UTC midnight west of Greenwich: the local
\* date is the day before
parseISO_utc(s) ==
    IF IsCalendarDay(s)
    THEN [valid |-> TRUE, time |-> DaysFromCivil(s[1], s[2], s[3]) - 1]
    ELSE InvalidDate

\* parseISO("yyyy-MM-dd"): the Date of local midnight of that day, Invalid
\* Date when the argument is no string or names no day
parseISO(s) ==
    IF IsCalendarDay(s)
    THEN [valid |-> TRUE, time |-> DaysFromCivil(s[1], s[2], s[3])]
    ELSE InvalidDate

\* date-fns isValid
isValid(date) == date.valid

\* Date.prototype.getTime
getTime(date) == IF date.valid THEN Num(date.time) ELSE NaN

\* a getMonth that counts the months from 1
getMonth_oneBased(date) ==
    IF date.valid THEN CivilFromDays(date.time)[2] ELSE NaN

\* Date.prototype.getMonth: zero-based month of the local calendar date
getMonth(date) ==
    IF date.valid THEN CivilFromDays(date.time)[2] - 1 ELSE NaN

MonthNames ==
    << "January", "February", "March", "April", "May", "June", "July",
       "August", "September", "October", "November", "December" >>

Pad2(n) == IF n < 10 THEN "0" \o ToString(n) ELSE ToString(n)

\* the token MMMM looking the name up with the one-based month in a
\* zero-based table: the name of the month after
FormatToken_nextMonth(date, tok) ==
    LET c == CivilFromDays(date.time)
    IN  CASE tok = "MMMM" -> MonthNames[c[2] + 1]
          [] tok = "yyyy" -> ToString(c[1])
          [] tok = "dd"   -> Pad2(c[3])
          [] OTHER        -> tok

\* one token of a date-fns format pattern
FormatToken(date, tok) ==
    LET c == CivilFromDays(date.time)
    IN  CASE tok = "MMMM" -> MonthNames[c[2]]
          [] tok = "yyyy" -> ToString(c[1])
          [] tok = "dd"   -> Pad2(c[3])
          [] OTHER        -> tok

RECURSIVE FormatFrom(_, _, _)
FormatFrom(date, pattern, i) ==
    IF i > Len(pattern) THEN ""
    ELSE FormatToken(date, pattern[i]) \o FormatFrom(date, pattern, i + 1)

\* a format that does not check its date
format_unchecked(date, pattern) == Ok(FormatFrom(date, pattern, 1))

\* format(date, pattern), the pattern given as its tokens; throws for an
\* Invalid Date
format(date, pattern) ==
    IF ~isValid(date)
    THEN Throw("RangeError: Invalid time value")
    ELSE Ok(FormatFrom(date, pattern, 1))

\* the pattern 'MMMM': the month name without the year
MonthPattern_monthOnly == << "MMMM" >>

\* the pattern 'yyyy MMMM'
MonthPattern_yearFirst == << "yyyy", " ", "MMMM" >>

\* the pattern 'MMMM yyyy' of blog.tsx
MonthPattern == << "MMMM", " ", "yyyy" >>

\* the pattern 'MMMM dd, yyyy' of BlogLayout
DayPattern == << "MMMM", " ", "dd", ", ", "yyyy" >>

\* ---------------------------------------------------------------------
\* getStaticProps of pages/blog.tsx
\* ---------------------------------------------------------------------

\* the comparator on getMonth() in place of getTime(): the year and the
\* day are not compared
compareFn_monthOnly(a, b) ==
    LET x == parseISO(a.publishedAt)
        y == parseISO(b.publishedAt)
    IN  IF x.valid /\ y.valid THEN Num(getMonth(y) - getMonth(x)) ELSE NaN

\* the comparator with its operands swapped: oldest first
compareFn_ascending(a, b) ==
    Minus(getTime(parseISO(a.publishedAt)), getTime(parseISO(b.publishedAt)))

\* the comparator of blogPosts.sort
compareFn(a, b) ==
    Minus(getTime(parseISO(b.publishedAt)), getTime(parseISO(a.publishedAt)))

\* SortCompare of Array.prototype.sort: a comparator result of NaN counts
\* as +0
SortCompare(x, y) ==
    LET v == compareFn(x, y) IN IF v.nan THEN 0 ELSE v.val

\* the insertion that puts x ahead of the elements it compares equal to
RECURSIVE InsertSorted_beforeEqual(_, _)
InsertSorted_beforeEqual(s, x) ==
    IF s = <<>> THEN <<x>>
    ELSE IF SortCompare(x, Head(s)) <= 0 THEN <<x>> \o s
    ELSE <<Head(s)>> \o InsertSorted_beforeEqual(Tail(s), x)

\* insert x into the sorted sequence s behind every element it does not
\* precede (stable)
RECURSIVE InsertSorted(_, _)
InsertSorted(s, x) ==
    IF s = <<>> THEN <<x>>
    ELSE IF SortCompare(x, Head(s)) < 0 THEN <<x>> \o s
    ELSE <<Head(s)>> \o InsertSorted(Tail(s), x)

\* a sort that leaves the array as it is
sort_skipped(s) == s

\* Array.prototype.sort with compareFn (stable, as ECMAScript requires)
RECURSIVE sort(_)
sort(s) ==
    IF s = <<>> THEN <<>>
    ELSE InsertSorted(sort(SubSeq(s, 1, Len(s) - 1)), s[Len(s)])

\* the orders of the array s
Orders(s) ==
    { [i \in 1..Len(s) |-> s[p[i]]] : p \in Permutations(1..Len(s)) }

\* the outcomes of a sort that is not stable: every order in which no
\* post stands behind one that compareFn puts after it
SortOutcomes_unstable(s) ==
    { o \in Orders(s) :
        \A i \in 1..(Len(o) - 1) : SortCompare(o[i], o[i + 1]) <= 0 }

\* what blogPosts.sort(compareFn) can leave in the array: the stable sort
\* when compareFn is a consistent comparator; any order (implementation
\* defined) when a publishedAt is an Invalid Date, whose NaN compares as
\* equal to every other time
SortOutcomes(s) ==
    IF \A i \in 1..Len(s) : isValid(parseISO(s[i].publishedAt))
    THEN { sort(s) }
    ELSE Orders(s)

\* a find that looks at the last group only
find_lastOnly(groups, month) ==
    IF Len(groups) > 0 /\ groups[Len(groups)].month = month
    THEN Len(groups)
    ELSE 0

\* a find whose test never holds (a group compared with the label)
find_notFound(groups, month) == 0

\* groups.find((g) => g.month === month): index of the first such group, 0
\* when there is none
find(groups, month) ==
    IF \E i \in 1..Len(groups) : groups[i].month = month
    THEN CHOOSE i \in 1..Len(groups) :
            /\ groups[i].month = month
            /\ \A j \in 1..(i - 1) : groups[j].month # month
    ELSE 0

\* the callback with unshift in place of push: the post goes to the front
\* of the group that was found
reducer_unshift(groups, blogPost) ==
    LET f == format(parseISO(blogPost.publishedAt), MonthPattern)
        g == find(groups, f.value)
    IN  IF f.threw THEN f
        ELSE IF g # 0
        THEN Ok([groups EXCEPT ![g].blogPosts = <<blogPost>> \o @])
        ELSE Ok(Append(groups,
                 [month       |-> f.value,
                  monthNumber |-> getMonth(parseISO(blogPost.publishedAt)),
                  blogPosts   |-> <<blogPost>>]))

\* the callback without the push into the group that was found
reducer_no_push(groups, blogPost) ==
    LET f == format(parseISO(blogPost.publishedAt), MonthPattern)
        g == find(groups, f.value)
    IN  IF f.threw THEN f
        ELSE IF g # 0
        THEN Ok(groups)
        ELSE Ok(Append(groups,
                 [month       |-> f.value,
                  monthNumber |-> getMonth(parseISO(blogPost.publishedAt)),
                  blogPosts   |-> <<blogPost>>]))

\* the callback of blogPosts.reduce; the exception of format leaves it
reducer(groups, blogPost) ==
    LET f == format(parseISO(blogPost.publishedAt), MonthPattern)
        g == find(groups, f.value)
    IN  IF f.threw THEN f
        ELSE IF g # 0
        THEN Ok([groups EXCEPT ![g].blogPosts = Append(@, blogPost)])
        ELSE Ok(Append(groups,
                 [month       |-> f.value,
                  monthNumber |-> getMonth(parseISO(blogPost.publishedAt)),
                  blogPosts   |-> <<blogPost>>]))

\* the fold of reduce from element i on, acc the outcome so far; an
\* exception of the callback ends it
RECURSIVE reduceFrom(_, _, _)
reduceFrom(acc, s, i) ==
    IF acc.threw \/ i > Len(s) THEN acc
    ELSE reduceFrom(reducer(acc.value, s[i]), s, i + 1)

\* a reduce that refuses the empty array
reduce_rejectEmpty(s) ==
    IF s = <<>>
    THEN Throw("TypeError: Reduce of empty array with no initial value")
    ELSE reduceFrom(Ok(<<>>), s, 1)

\* blogPosts.reduce(reducer, [])
reduce(s) == reduceFrom(Ok(<<>>), s, 1)

\* ---------------------------------------------------------------------
\* BlogBanner of components/blog-banner.tsx
\* ---------------------------------------------------------------------

\* a search that stops at the query string or fragment of s
includes_beforeQuery(s, t) ==
    \E i \in 0..(Len(s) - Len(t)) :
        /\ SubSeq(s, i + 1, i + Len(t)) = t
        /\ \A j \in 1..(i + Len(t)) : s[j] \notin {"?", "#"}

\* String.prototype.includes: t occurs in s as a contiguous run
includes(s, t) ==
    \E i \in 0..(Len(s) - Len(t)) : SubSeq(s, i + 1, i + Len(t)) = t

\* the string literals the three predicates search for
MediumMarker == << "javascript.", "plainenglish.", "io" >>
LogRocketMarker == << "blog.", "logrocket.", "com" >>
FreeCodeCampMarker == << "freecodecamp.", "org" >>

\* the Medium predicate looking for medium.com instead
isMediumUrl_mediumCom(url) == includes(url, << "medium.", "com" >>)

isMediumUrl(url) == includes(url, MediumMarker)
isLogRocketUrl(url) == includes(url, LogRocketMarker)
isFreeCodeCampUrl(url) == includes(url, FreeCodeCampMarker)

\* the chain with the Medium test ahead of the LogRocket test
linkContent_mediumFirst(externalUrl) ==
    IF isMediumUrl(externalUrl)
    THEN [label |-> "Medium", icon |-> "FaMedium"]
    ELSE IF isLogRocketUrl(externalUrl)
    THEN [label |-> "LogRocket", icon |-> "IoMdRocket"]
    ELSE IF isFreeCodeCampUrl(externalUrl)
    THEN [label |-> "FreeCodeCamp", icon |-> "FaFreeCodeCamp"]
    ELSE [label |-> "external", icon |-> ""]

\* the chain without its last test: FreeCodeCamp is the fallback
linkContent_noFallback(externalUrl) ==
    IF isLogRocketUrl(externalUrl)
    THEN [label |-> "LogRocket", icon |-> "IoMdRocket"]
    ELSE IF isMediumUrl(externalUrl)
    THEN [label |-> "Medium", icon |-> "FaMedium"]
    ELSE [label |-> "FreeCodeCamp", icon |-> "FaFreeCodeCamp"]

\* the chain testing the host of new URL(externalUrl), which throws for a
\* string that is no URL
linkContent_parsedUrl(externalUrl) ==
    IF externalUrl = <<>> \/ externalUrl[1] # "https://"
    THEN [label |-> "TypeError: Invalid URL", icon |-> ""]
    ELSE IF isLogRocketUrl(externalUrl)
    THEN [label |-> "LogRocket", icon |-> "IoMdRocket"]
    ELSE IF isMediumUrl(externalUrl)
    THEN [label |-> "Medium", icon |-> "FaMedium"]
    ELSE IF isFreeCodeCampUrl(externalUrl)
    THEN [label |-> "FreeCodeCamp", icon |-> "FaFreeCodeCamp"]
    ELSE [label |-> "external", icon |-> ""]

\* the children of the Link: the conditional chain of the JSX
linkContent(externalUrl) ==
    IF isLogRocketUrl(externalUrl)
    THEN [label |-> "LogRocket", icon |-> "IoMdRocket"]
    ELSE IF isMediumUrl(externalUrl)
    THEN [label |-> "Medium", icon |-> "FaMedium"]
    ELSE IF isFreeCodeCampUrl(externalUrl)
    THEN [label |-> "FreeCodeCamp", icon |-> "FaFreeCodeCamp"]
    ELSE [label |-> "external", icon |-> ""]

NoLink == [rendered |-> FALSE, href |-> <<>>, label |-> "", icon |-> ""]

\* BlogBanner with the link beside the banner box instead of inside it:
\* the link does not depend on the banner
BlogBanner_linkBesideImage(p) ==
    [overlay |-> p.bannerComponent,
     image   |-> Truthy(p.banner),
     link    |-> IF Truthy(p.externalUrl)
                 THEN [rendered |-> TRUE,
                       href     |-> p.externalUrl.str,
                       label    |-> linkContent(p.externalUrl.str).label,
                       icon     |-> linkContent(p.externalUrl.str).icon]
                 ELSE NoLink]

\* BlogBanner testing externalUrl !== undefined instead of its truthiness
BlogBanner_definedOnly(p) ==
    [overlay |-> p.bannerComponent,
     image   |-> Truthy(p.banner),
     link    |-> IF Truthy(p.banner) /\ p.externalUrl.def
                 THEN [rendered |-> TRUE,
                       href     |-> p.externalUrl.str,
                       label    |-> linkContent(p.externalUrl.str).label,
                       icon     |-> linkContent(p.externalUrl.str).icon]
                 ELSE NoLink]

\* what BlogBanner renders for its props: the bannerComponent overlay, the
\* banner image and, inside the image box, the external link
BlogBanner(p) ==
    [overlay |-> p.bannerComponent,
     image   |-> Truthy(p.banner),
     link    |-> IF Truthy(p.banner) /\ Truthy(p.externalUrl)
                 THEN [rendered |-> TRUE,
                       href     |-> p.externalUrl.str,
                       label    |-> linkContent(p.externalUrl.str).label,
                       icon     |-> linkContent(p.externalUrl.str).icon]
                 ELSE NoLink]

\* the older BlogBanner without the test of externalUrl: a link under
\* every banner image
BlogBannerOld_noUrlGuard(p) ==
    [overlay |-> p.bannerComponent,
     image   |-> Truthy(p.banner),
     link    |-> IF Truthy(p.banner)
                 THEN [rendered |-> TRUE,
                       href     |-> p.externalUrl.str,
                       label    |-> "LogRocket",
                       icon     |-> "rocket-emoji"]
                 ELSE NoLink]

\* the older BlogBanner: the link always reads "LogRocket" with a rocket
BlogBannerOld(p) ==
    [overlay |-> p.bannerComponent,
     image   |-> Truthy(p.banner),
     link    |-> IF Truthy(p.banner) /\ Truthy(p.externalUrl)
                 THEN [rendered |-> TRUE,
                       href     |-> p.externalUrl.str,
                       label    |-> "LogRocket",
                       icon     |-> "rocket-emoji"]
                 ELSE NoLink]

\* the props BlogLayout passes to BlogBanner; externalUrl is not among them
\* (bannerBg and freeCodeCamp are, and end up in ...props)
BlogLayoutBannerProps(fm) ==
    [alt             |-> fm.title,
     banner          |-> fm.banner,
     bannerComponent |-> fm.bannerComponent,
     freeCodeCamp    |-> fm.freeCodeCamp,
     externalUrl     |-> Undefined]

\* the props of a BlogBanner that is handed the frontmatter's externalUrl
BannerProps(fm) ==
    [alt             |-> fm.title,
     banner          |-> fm.banner,
     bannerComponent |-> fm.bannerComponent,
     externalUrl     |-> fm.externalUrl]

\* the externalUrl values of the frontmatter: URLs put together from
\* userinfo, host, path, query and fragment, and strings that are no URLs
UserInfos == { <<>>, LogRocketMarker \o <<"@">> }
Hosts ==
    { <<"example.", "com">>, LogRocketMarker, MediumMarker,
      FreeCodeCampMarker, <<"www.">> \o FreeCodeCampMarker,
      <<"my">> \o LogRocketMarker, <<"logrocket.", "com">> }
Paths ==
    { <<>>, <<"/", "foo">>, <<"/">> \o FreeCodeCampMarker,
      <<"/">> \o MediumMarker }
Queries ==
    { <<>>, <<"?", "ref=">> \o LogRocketMarker,
      <<"?", "ref=">> \o MediumMarker }
Fragments == { <<>>, <<"#">> \o FreeCodeCampMarker }

Urls ==
    { <<"https://">> \o u \o h \o p \o q \o f :
        u \in UserInfos, h \in Hosts, p \in Paths, q \in Queries,
        f \in Fragments }

ExternalUrls ==
    { Undefined, Str(<<>>), Str(<<"foo">>) } \cup { Str(u) : u \in Urls }

Banners == { Undefined, Str(<<>>), Str(<<"/images/blog/", "banner.png">>) }

\* the slugs of the posts that have a page, as text: one slug begins with
\* another, one with the "blog/" of the URL
PageSlugs ==
    { <<Slugs[1]>>, <<Slugs[1], "-", "2">>, <<"blog/", Slugs[1]>> }

FrontMatters ==
    [title           : { PostTitle, Undefined },
     slug            : PageSlugs,
     publishedAt     : { <<2023, 3, 1>>, NoDate },
     banner          : Banners,
     bannerComponent : BOOLEAN,
     freeCodeCamp    : { Undefined },
     externalUrl     : ExternalUrls]

NoFrontMatter ==
    [title |-> Undefined, slug |-> <<>>, publishedAt |-> NoDate, banner |-> Undefined, bannerComponent |-> FALSE,
     freeCodeCamp |-> Undefined, externalUrl |-> Undefined]

NoDom == [overlay |-> FALSE, image |-> FALSE, link |-> NoLink]

\* the site URL constant imported from utils/consts, as one piece of text
\* whose characters are not looked at
websiteUrl == << "websiteUrl" >>

\* the template literal without the slug: the URL of the blog index
postUrl_noSlug(fm) == websiteUrl \o << "blog" >>

\* the template literal `${websiteUrl}blog/${frontMatter.slug}`
postUrl(fm) == websiteUrl \o << "blog/" >> \o fm.slug

\* the props BlogLayout passes to BlogSeo: url and date, then the
\* frontmatter spread over them (it has no url and no date of its own)
BlogSeoProps(fm, date) ==
    [url         |-> postUrl(fm),
     date        |-> date,
     title       |-> fm.title,
     publishedAt |-> fm.publishedAt,
     slug        |-> fm.slug]

\* what BlogSeo puts into the head of the page: the canonical link and the
\* Open Graph data of NextSeo, the items of BreadcrumbJsonLd and the
\* BlogJsonLd; toISOString throws for an Invalid Date
BlogSeo(p) ==
    IF ~IsCalendarDay(p.publishedAt)
    THEN Throw("RangeError: Invalid time value")
    ELSE Ok([canonical  |-> p.url,
             openGraph  |-> [url |-> p.url, title |-> p.title],
             breadcrumb |-> << [position |-> 1,
                                item     |-> websiteUrl \o << "blog" >>],
                               [position |-> 2, item |-> p.url] >>,
             jsonLd     |-> [url |-> p.url, title |-> p.title]])

NoSeo ==
    [canonical  |-> <<>>,
     openGraph  |-> [url |-> <<>>, title |-> Undefined],
     breadcrumb |-> <<>>,
     jsonLd     |-> [url |-> <<>>, title |-> Undefined]]

NoPage == [title |-> Undefined, date |-> "", seo |-> NoSeo]

\* the publishedAt values of the loaded posts
PublishedAts == Dates \cup BadDates \cup { NoDate }

\* a post array the content loader can resolve to: n posts with unique
\* slugs, the publishedAt values f in that order, post t without a title
\* (t = 0: every post has one)
PostArray(n, f, t) ==
    [i \in 1..n |->
        [slug        |-> Slugs[i],
         title       |-> IF i = t THEN Undefined ELSE PostTitle,
         publishedAt |-> f[i]]]

NoProps == [groups |-> <<>>]

\* the color modes of the theme
ColorModes == { "light", "dark" }

\* localStorage.getItem of an item that is not set
Null == "null"

Routes == { "/", "/blog", "/blog/post" }

\* a colorModeManager that keeps the mode in a cookie
colorModeManager_cookie == "cookie"

\* the colorModeManager prop of ChakraProvider: localStorageManager
colorModeManager == "localStorage"

\* no App is running
AppIdle ==
    /\ initialColorMode = "light"
    /\ colorMode = "light"
    /\ localStorage = Null
    /\ cookie = Null
    /\ mounted = FALSE
    /\ toggles = 0
    /\ route = "/"
    /\ routeChange = FALSE
    /\ scrollTop = 0
    /\ scrollBefore = -1

otherVars ==
    <<pc, loaded, blogPosts, props, frontMatter, view, dom, domOld, page,
      run, first>>

\* getStaticProps up to its await: the loader is called and pending
Init ==
    /\ pc = "await"
    /\ \E n \in 0..MaxPosts :
         \E f \in [1..n -> PublishedAts], t \in 0..n :
            loaded = PostArray(n, f, t)
    /\ blogPosts = <<>>
    /\ props = NoProps
    /\ frontMatter = NoFrontMatter
    /\ view = "none"
    /\ dom = NoDom
    /\ domOld = NoDom
    /\ page = NoPage
    /\ run = 1
    /\ first = NoProps
    /\ AppIdle

\* await getAllFilesFrontMatter('blog') resolves
getAllFilesFrontMatter ==
    /\ pc = "await"
    /\ blogPosts' = loaded
    /\ pc' = "loaded"
    /\ UNCHANGED <<loaded, props, frontMatter, view, dom, domOld, page, run,
                   first>>
    /\ UNCHANGED appVars

\* getStaticProps without the await: the sort and the fold also run while
\* the load is pending, on the posts that are there by then
getStaticProps_noAwait ==
    /\ pc \in {"await", "loaded"}
    /\ blogPosts' \in SortOutcomes(blogPosts)
    /\ LET groupedBlogPosts == reduce(blogPosts')
       IN  IF groupedBlogPosts.threw
           THEN pc' = "failed" /\ props' = props
           ELSE pc' = "done" /\ props' = [groups |-> groupedBlogPosts.value]
    /\ UNCHANGED <<loaded, frontMatter, view, dom, domOld, page, run, first>>
    /\ UNCHANGED appVars

\* the rest of getStaticProps: sort in place, group, and return the
\* groups or pass on the exception
getStaticProps ==
    /\ pc = "loaded"
    /\ blogPosts' \in SortOutcomes(blogPosts)
    /\ LET groupedBlogPosts == reduce(blogPosts')
       IN  IF groupedBlogPosts.threw
           THEN pc' = "failed" /\ props' = props
           ELSE pc' = "done" /\ props' = [groups |-> groupedBlogPosts.value]
    /\ UNCHANGED <<loaded, frontMatter, view, dom, domOld, page, run, first>>
    /\ UNCHANGED appVars

\* the index page is built again: getStaticProps is called anew, and the
\* loader resolves to an array in the order of the content, or to the
\* array the build before left behind
Rebuild ==
    /\ pc = "done"
    /\ run < MaxRuns
    /\ run' = run + 1
    /\ first' = IF run = 1 THEN props ELSE first
    /\ loaded' \in {loaded, blogPosts}
    /\ blogPosts' = <<>>
    /\ props' = NoProps
    /\ pc' = "await"
    /\ UNCHANGED <<frontMatter, view, dom, domOld, page>>
    /\ UNCHANGED appVars

Next == getAllFilesFrontMatter \/ getStaticProps \/ Rebuild

Spec == Init /\ [][Next]_vars

\* a post's frontmatter is loaded; nothing is rendered yet
BannerInit ==
    /\ pc = "idle"
    /\ loaded = <<>>
    /\ blogPosts = <<>>
    /\ props = NoProps
    /\ frontMatter \in FrontMatters
    /\ view = "none"
    /\ dom = NoDom
    /\ domOld = NoDom
    /\ page = NoPage
    /\ run = 1
    /\ first = NoProps
    /\ AppIdle

\* BlogBanner is rendered with the frontmatter's banner, bannerComponent
\* and externalUrl as its props, alone or beside the older BlogBanner
RenderBlogBanner ==
    /\ view \in {"none", "banner-old"}
    /\ pc = "idle"
    /\ dom' = BlogBanner(BannerProps(frontMatter))
    /\ view' = IF view = "none" THEN "banner" ELSE "both"
    /\ UNCHANGED <<pc, loaded, blogPosts, props, frontMatter, domOld, page,
                   run, first>>
    /\ UNCHANGED appVars

\* the older BlogBanner is rendered with the same props, alone or beside
\* the newer BlogBanner
RenderBlogBannerOld ==
    /\ view \in {"none", "banner"}
    /\ pc = "idle"
    /\ domOld' = BlogBannerOld(BannerProps(frontMatter))
    /\ view' = IF view = "none" THEN "banner-old" ELSE "both"
    /\ UNCHANGED <<pc, loaded, blogPosts, props, frontMatter, dom, page, run,
                   first>>
    /\ UNCHANGED appVars

\* BlogLayout renders the post page: it formats the date, which throws for
\* an Invalid Date, then renders BlogSeo, the header and the banner;
\* './blog-banner' is either of the two BlogBanner components
BlogLayout ==
    /\ view = "none"
    /\ pc = "idle"
    /\ LET date == format(parseISO(frontMatter.publishedAt), DayPattern)
           seo  == BlogSeo(BlogSeoProps(frontMatter, date.value))
       IN  IF date.threw \/ seo.threw
           THEN view' = "page-failed" /\ dom' = dom /\ page' = page
           ELSE /\ view' = "page"
                /\ page' = [title |-> frontMatter.title,
                            date  |-> date.value,
                            seo   |-> seo.value]
                /\ \E newer \in BOOLEAN :
                     dom' = IF newer
                            THEN BlogBanner(BlogLayoutBannerProps(frontMatter))
                            ELSE BlogBannerOld(
                                     BlogLayoutBannerProps(frontMatter))
    /\ UNCHANGED <<pc, loaded, blogPosts, props, frontMatter, domOld, run,
                   first>>
    /\ UNCHANGED appVars

BannerNext == RenderBlogBanner \/ RenderBlogBannerOld \/ BlogLayout

BannerSpec == BannerInit /\ [][BannerNext]_vars

\* ---------------------------------------------------------------------
\* App of pages/_app.tsx
\* ---------------------------------------------------------------------

\* a page of the site is requested: the browser holds what earlier visits
\* stored, the page is rendered in the color mode of the theme
AppInit ==
    /\ pc = "idle"
    /\ loaded = <<>>
    /\ blogPosts = <<>>
    /\ props = NoProps
    /\ frontMatter = NoFrontMatter
    /\ view = "none"
    /\ dom = NoDom
    /\ domOld = NoDom
    /\ page = NoPage
    /\ run = 1
    /\ first = NoProps
    /\ initialColorMode \in ColorModes
    /\ colorMode = initialColorMode
    /\ localStorage \in ColorModes \cup { Null }
    /\ cookie \in ColorModes \cup { Null }
    /\ mounted = FALSE
    /\ toggles = 0
    /\ route \in Routes
    /\ routeChange = FALSE
    /\ scrollTop = 0
    /\ scrollBefore = -1

\* App mounts: ChakraProvider reads the mode its colorModeManager holds and
\* displays it if there is one
App ==
    /\ ~mounted
    /\ mounted' = TRUE
    /\ LET stored == IF colorModeManager = "localStorage"
                     THEN localStorage ELSE cookie
       IN  colorMode' = IF stored # Null THEN stored ELSE colorMode
    /\ UNCHANGED <<initialColorMode, localStorage, cookie, toggles, route,
                   routeChange, scrollTop, scrollBefore>>
    /\ UNCHANGED otherVars

\* a click on the ColorModeSwitcher of the Navigation: the other mode is
\* handed to the colorModeManager and displayed
ColorModeSwitcher ==
    /\ mounted
    /\ toggles < MaxToggles
    /\ toggles' = toggles + 1
    /\ LET value == IF colorMode = "light" THEN "dark" ELSE "light"
       IN  /\ colorMode' = value
           /\ IF colorModeManager = "localStorage"
              THEN localStorage' = value /\ cookie' = cookie
              ELSE cookie' = value /\ localStorage' = localStorage
    /\ UNCHANGED <<initialColorMode, mounted, route, routeChange, scrollTop,
                   scrollBefore>>
    /\ UNCHANGED otherVars

\* the page is loaded again: the browser keeps localStorage and the
\* cookie, the page starts over in the color mode of the theme
Reload ==
    /\ mounted
    /\ mounted' = FALSE
    /\ colorMode' = initialColorMode
    /\ routeChange' = FALSE
    /\ scrollTop' = 0
    /\ UNCHANGED <<initialColorMode, localStorage, cookie, toggles, route,
                   scrollBefore>>
    /\ UNCHANGED otherVars

\* the user scrolls the page
Scroll ==
    /\ mounted
    /\ \E y \in 0..MaxScroll : y # scrollTop /\ scrollTop' = y
    /\ UNCHANGED <<initialColorMode, colorMode, localStorage, cookie,
                   mounted, toggles, route, routeChange, scrollBefore>>
    /\ UNCHANGED otherVars

\* the user follows a link: the Router changes the route
RouteChangeStart ==
    /\ mounted
    /\ ~routeChange
    /\ \E r \in Routes : r # route /\ route' = r
    /\ routeChange' = TRUE
    /\ UNCHANGED <<initialColorMode, colorMode, localStorage, cookie,
                   mounted, toggles, scrollTop, scrollBefore>>
    /\ UNCHANGED otherVars

\* a handler that scrolls another element: document.body stays where it
\* is
routeChangeComplete_otherElement ==
    /\ mounted
    /\ routeChange
    /\ scrollBefore' = scrollTop
    /\ scrollTop' = scrollTop
    /\ routeChange' = FALSE
    /\ UNCHANGED <<initialColorMode, colorMode, localStorage, cookie,
                   mounted, toggles, route>>
    /\ UNCHANGED otherVars

\* the handler of Router.events.on('routeChangeComplete')
routeChangeComplete ==
    /\ mounted
    /\ routeChange
    /\ scrollBefore' = scrollTop
    /\ scrollTop' = 0
    /\ routeChange' = FALSE
    /\ UNCHANGED <<initialColorMode, colorMode, localStorage, cookie,
                   mounted, toggles, route>>
    /\ UNCHANGED otherVars

AppNext ==
    \/ App
    \/ ColorModeSwitcher
    \/ Reload
    \/ Scroll
    \/ RouteChangeStart
    \/ routeChangeComplete

AppSpec == AppInit /\ [][AppNext]_vars

\* ---------------------------------------------------------------------
\* Properties of the index builder
\* ---------------------------------------------------------------------

\* the places <<g, j>> of the returned groups that hold post p
PlacesOf(p) ==
    { x \in (1..Len(props.groups)) \X (1..MaxPosts + 1) :
        /\ x[2] <= Len(props.groups[x[1]].blogPosts)
        /\ props.groups[x[1]].blogPosts[x[2]] = p }

\* the posts held by the returned groups
GroupedPosts ==
    UNION { { props.groups[g].blogPosts[j] :
                j \in 1..Len(props.groups[g].blogPosts) } :
            g \in 1..Len(props.groups) }

\* C1: the returned groups partition the loaded posts: every loaded post
\* is at exactly one place of exactly one group, and the groups hold no
\* other post.
C1_GroupsPartitionInput ==
    pc = "done" =>
        /\ \A i \in 1..Len(loaded) : Cardinality(PlacesOf(loaded[i])) = 1
        /\ GroupedPosts = { loaded[i] : i \in 1..Len(loaded) }

\* a run that grouped three posts into two groups
C1_Witness ==
    /\ pc = "done"
    /\ Len(loaded) = 3
    /\ Len(props.groups) = 2

\* the calendar months a label can name
LabelMonths == (2019..2024) \X (1..12)

\* the label of the month ym = <<year, month>>: full month name, four-digit
\* year
LabelOf(ym) == MonthNames[ym[2]] \o " " \o ToString(ym[1])

\* the rank of the month a label names (months since year 0), -1 when the
\* label names none
MonthRank(label) ==
    IF \E ym \in LabelMonths : LabelOf(ym) = label
    THEN LET ym == CHOOSE ym \in LabelMonths : LabelOf(ym) = label
         IN  ym[1] * 12 + ym[2]
    ELSE -1

\* C2: consecutive groups are in strictly descending order of the month
\* they represent, the most recent month first.
C2_GroupsNewestMonthFirst ==
    pc = "done" =>
        \A i \in 1..(Len(props.groups) - 1) :
            MonthRank(props.groups[i].month) >
                MonthRank(props.groups[i + 1].month)

\* a run whose loader returned the posts oldest first and that returned
\* three groups
C2_Witness ==
    /\ pc = "done"
    /\ Len(props.groups) = 3
    /\ loaded # blogPosts
    /\ loaded[1].publishedAt = <<2021, 10, 7>>
    /\ loaded[3].publishedAt = <<2022, 9, 12>>

\* d1 is the same day as d2 or a later one (d1, d2 as <<y, m, d>>)
NotBefore(d1, d2) ==
    \/ d1[1] > d2[1]
    \/ d1[1] = d2[1] /\ d1[2] > d2[2]
    \/ d1[1] = d2[1] /\ d1[2] = d2[2] /\ d1[3] >= d2[3]

\* C3: inside every group consecutive posts are newest first.
C3_PostsNewestFirst ==
    pc = "done" =>
        \A g \in 1..Len(props.groups) :
            \A j \in 1..(Len(props.groups[g].blogPosts) - 1) :
                NotBefore(props.groups[g].blogPosts[j].publishedAt,
                          props.groups[g].blogPosts[j + 1].publishedAt)

\* a run that put two posts of August 2021, loaded oldest first, into one
\* group
C3_Witness ==
    /\ pc = "done"
    /\ Len(loaded) >= 2
    /\ loaded[1].publishedAt = <<2021, 8, 9>>
    /\ loaded[2].publishedAt = <<2021, 8, 31>>
    /\ \E g \in 1..Len(props.groups) : Len(props.groups[g].blogPosts) >= 2

\* the group that holds post p
GroupOf(p) == CHOOSE g \in 1..Len(props.groups) :
                 \E j \in 1..Len(props.groups[g].blogPosts) :
                    props.groups[g].blogPosts[j] = p

\* C4: the label of a group is the full month name and four-digit year of
\* the publishedAt of each of its posts, and two loaded posts of the same
\* month and year are in the same group.
C4_LabelIsMonthAndYear ==
    pc = "done" =>
        /\ \A g \in 1..Len(props.groups) :
             \A j \in 1..Len(props.groups[g].blogPosts) :
                LET d == props.groups[g].blogPosts[j].publishedAt
                IN  props.groups[g].month = LabelOf(<<d[1], d[2]>>)
        /\ \A i, j \in 1..Len(loaded) :
             (/\ loaded[i].publishedAt[1] = loaded[j].publishedAt[1]
              /\ loaded[i].publishedAt[2] = loaded[j].publishedAt[2]
              /\ loaded[i] \in GroupedPosts
              /\ loaded[j] \in GroupedPosts)
                => GroupOf(loaded[i]) = GroupOf(loaded[j])

\* a run with a group of two August 2021 posts of different days and a
\* group for August 2022
C4_Witness ==
    /\ pc = "done"
    /\ \E g, h \in 1..Len(props.groups) :
         /\ props.groups[g].month = "August 2021"
         /\ Len(props.groups[g].blogPosts) = 2
         /\ props.groups[g].blogPosts[1].publishedAt #
                props.groups[g].blogPosts[2].publishedAt
         /\ props.groups[h].month = "August 2022"

\* C11: when the publishedAt of a loaded post names no day, getStaticProps
\* does not return: it ends with the exception, and no group list is
\* returned.
C11_BadDateFailsBuild ==
    (\E i \in 1..Len(loaded) : loaded[i].publishedAt \notin Dates) =>
        /\ pc \in {"await", "loaded", "failed"}
        /\ props = NoProps

\* a run that failed on three posts whose last one is dated 2021-02-30
C11_Witness ==
    /\ pc = "failed"
    /\ Len(loaded) = 3
    /\ loaded[1].publishedAt = <<2022, 9, 12>>
    /\ loaded[2].publishedAt = <<2021, 7, 14>>
    /\ loaded[3].publishedAt = <<2021, 2, 30>>

\* C12: getStaticProps returns groups only for posts that all have a title
\* and a date.
C12_MissingFieldFailsBuild ==
    pc = "done" =>
        \A i \in 1..Len(loaded) :
            loaded[i].title.def /\ loaded[i].publishedAt # NoDate

\* C14: a build of the index page after the first one, on the posts in
\* the order of the first build or on the array the build before left
\* behind, returns the groups of the first build, post for post.
C14_RebuildGivesSameGroups ==
    (pc = "done" /\ run > 1) => props = first

\* a second build that returned two groups, one of them with two posts of
\* the same day
C14_Witness ==
    /\ pc = "done"
    /\ run = 2
    /\ Len(props.groups) = 2
    /\ \E g \in 1..Len(props.groups) :
         /\ Len(props.groups[g].blogPosts) = 2
         /\ props.groups[g].blogPosts[1].publishedAt =
                props.groups[g].blogPosts[2].publishedAt

\* C15 as claimed: when getStaticProps has returned, the array the loader
\* resolved to is as the loader filled it, in content and in order.
C15_InputUnchanged ==
    pc = "done" => blogPosts = loaded

\* the sequence s is newest first
NewestFirst(s) ==
    \A i \in 1..(Len(s) - 1) :
        NotBefore(s[i].publishedAt, s[i + 1].publishedAt)

\* C15: when getStaticProps has returned, the array the loader resolved to
\* holds the posts the loader put there, each once, sorted in place newest
\* first; it is in the loader's order if that order was newest first.
C15_InputSortedInPlace ==
    pc = "done" =>
        /\ Len(blogPosts) = Len(loaded)
        /\ \A i \in 1..Len(loaded) :
              Cardinality({ j \in 1..Len(blogPosts) :
                              blogPosts[j] = loaded[i] }) = 1
        /\ NewestFirst(blogPosts)
        /\ NewestFirst(loaded) => blogPosts = loaded

\* a first build whose loader returned three posts oldest first, two of
\* them of the same day
C15_Witness ==
    /\ pc = "done"
    /\ run = 1
    /\ Len(loaded) = 3
    /\ loaded[1].publishedAt = <<2021, 7, 14>>
    /\ loaded[2].publishedAt = <<2022, 3, 3>>
    /\ loaded[3].publishedAt = <<2022, 3, 3>>
    /\ blogPosts # loaded
    /\ blogPosts[3] = loaded[1]

\* the publishedAt values of the loaded posts, and the labels and sizes of
\* the returned groups, in order
LoadedDates == { loaded[i].publishedAt : i \in 1..Len(loaded) }
GroupLabels == [g \in 1..Len(props.groups) |-> props.groups[g].month]
GroupSizes ==
    [g \in 1..Len(props.groups) |-> Len(props.groups[g].blogPosts)]

\* C16: for three posts dated 2022-09-12, 2022-03-03 and 2021-10-07, in
\* any order, the groups are "September 2022", "March 2022", "October
\* 2021", in that order, with one post each.
C16_ThreeMonthsScenario ==
    (/\ pc = "done"
     /\ Len(loaded) = 3
     /\ LoadedDates = { <<2022, 9, 12>>, <<2022, 3, 3>>, <<2021, 10, 7>> })
        => /\ GroupLabels = <<"September 2022", "March 2022", "October 2021">>
           /\ GroupSizes = <<1, 1, 1>>
           /\ props.groups[1].blogPosts[1].publishedAt = <<2022, 9, 12>>
           /\ props.groups[2].blogPosts[1].publishedAt = <<2022, 3, 3>>
           /\ props.groups[3].blogPosts[1].publishedAt = <<2021, 10, 7>>

\* the build of the three posts loaded in the order 2022-03-03, 2021-10-07,
\* 2022-09-12
C16_Witness ==
    /\ pc = "done"
    /\ Len(loaded) = 3
    /\ loaded[1].publishedAt = <<2022, 3, 3>>
    /\ loaded[2].publishedAt = <<2021, 10, 7>>
    /\ loaded[3].publishedAt = <<2022, 9, 12>>
    /\ Len(props.groups) = 3

\* C17: for two posts dated 2021-07-14 and 2021-08-09, in either order,
\* the groups are "August 2021" and then "July 2021", with one post each.
C17_TwoMonthsScenario ==
    (/\ pc = "done"
     /\ Len(loaded) = 2
     /\ LoadedDates = { <<2021, 7, 14>>, <<2021, 8, 9>> })
        => /\ GroupLabels = <<"August 2021", "July 2021">>
           /\ GroupSizes = <<1, 1>>
           /\ props.groups[1].blogPosts[1].publishedAt = <<2021, 8, 9>>
           /\ props.groups[2].blogPosts[1].publishedAt = <<2021, 7, 14>>

\* the build of the two posts loaded July first
C17_Witness ==
    /\ pc = "done"
    /\ Len(loaded) = 2
    /\ loaded[1].publishedAt = <<2021, 7, 14>>
    /\ loaded[2].publishedAt = <<2021, 8, 9>>
    /\ Len(props.groups) = 2

\* C18: for no posts getStaticProps does not throw, and it returns no
\* groups.
C18_NoPostsNoGroups ==
    loaded = <<>> =>
        /\ pc # "failed"
        /\ pc = "done" => props.groups = <<>>

\* a build that returned for an empty post array
C18_Witness ==
    /\ pc = "done"
    /\ loaded = <<>>
    /\ blogPosts = <<>>
    /\ props = [groups |-> <<>>]

\* the loaded posts all fall in one month of one year
OneMonth ==
    \A i, j \in 1..Len(loaded) :
        /\ loaded[i].publishedAt[1] = loaded[j].publishedAt[1]
        /\ loaded[i].publishedAt[2] = loaded[j].publishedAt[2]

\* C19: for one or more posts that all fall in the same month and year
\* there is exactly one group, and it holds all the posts.
C19_OneMonthOneGroup ==
    (pc = "done" /\ loaded # <<>> /\ OneMonth) =>
        /\ Len(props.groups) = 1
        /\ Len(props.groups[1].blogPosts) = Len(loaded)
        /\ \A i \in 1..Len(loaded) :
              \E j \in 1..Len(loaded) :
                 props.groups[1].blogPosts[j] = loaded[i]

\* a build of three August 2021 posts of two different days
C19_Witness ==
    /\ pc = "done"
    /\ Len(loaded) = 3
    /\ OneMonth
    /\ LoadedDates = { <<2021, 8, 9>>, <<2021, 8, 31>> }
    /\ Len(props.groups) = 1

\* ---------------------------------------------------------------------
\* Properties of the banner
\* ---------------------------------------------------------------------

\* the text t occurs somewhere in the text s
Occurs(t, s) ==
    \E a, b \in 0..Len(s) : a <= b /\ SubSeq(s, a + 1, b) = t

\* the platform markers that occur in the text s
MarkersIn(s) ==
    { m \in {LogRocketMarker, MediumMarker, FreeCodeCampMarker} :
        Occurs(m, s) }

\* the externalUrl of the frontmatter, as text
Url == frontMatter.externalUrl.str

\* BlogBanner was rendered and shows a link
LinkShown == view = "banner" /\ dom.link.rendered

\* C5: a link for an externalUrl that contains exactly one platform marker
\* shows the label and icon of that platform.
C5_OneMarkerGivesItsPlatform ==
    LinkShown =>
        /\ MarkersIn(Url) = {LogRocketMarker} =>
              dom.link.label = "LogRocket" /\ dom.link.icon = "IoMdRocket"
        /\ MarkersIn(Url) = {MediumMarker} =>
              dom.link.label = "Medium" /\ dom.link.icon = "FaMedium"
        /\ MarkersIn(Url) = {FreeCodeCampMarker} =>
              /\ dom.link.label = "FreeCodeCamp"
              /\ dom.link.icon = "FaFreeCodeCamp"

\* a link for a URL whose only marker is javascript.plainenglish.io, in
\* its host
C5_Witness ==
    /\ LinkShown
    /\ MarkersIn(Url) = {MediumMarker}
    /\ Url = <<"https://">> \o MediumMarker \o <<"/", "foo">>
    /\ dom.link.label = "Medium"

\* C6: for an externalUrl with more than one platform marker the label is
\* that of the first rule that matches, in the order LogRocket, Medium,
\* FreeCodeCamp, wherever the markers stand in the URL.
C6_FirstMatchWins ==
    (LinkShown /\ Cardinality(MarkersIn(Url)) > 1) =>
        /\ LogRocketMarker \in MarkersIn(Url) => dom.link.label = "LogRocket"
        /\ (LogRocketMarker \notin MarkersIn(Url)
              /\ MediumMarker \in MarkersIn(Url)) =>
              dom.link.label = "Medium"

\* a link for a URL with Medium's marker in the host, FreeCodeCamp's in the
\* path and LogRocket's last, in the query string
C6_Witness ==
    /\ LinkShown
    /\ Url = <<"https://">> \o MediumMarker \o <<"/">> \o FreeCodeCampMarker
               \o <<"?", "ref=">> \o LogRocketMarker
    /\ dom.link.label = "LogRocket"

\* C7: whenever BlogBanner has a banner image and a non-empty externalUrl
\* that contains no platform marker, its link reads "external" and has no
\* icon.
C7_UnknownPlatformIsExternal ==
    (/\ view = "banner"
     /\ Truthy(frontMatter.banner)
     /\ Truthy(frontMatter.externalUrl)
     /\ MarkersIn(Url) = {}) =>
        /\ dom.link.rendered
        /\ dom.link.label = "external"
        /\ dom.link.icon = ""

\* a link for https://example.com
C7_Witness ==
    /\ LinkShown
    /\ Url = <<"https://", "example.", "com">>
    /\ dom.link.label = "external"

\* C8: BlogBanner renders no link when externalUrl is undefined or the
\* empty string, whatever banner and bannerComponent are.
C8_NoUrlNoLink ==
    (view = "banner" /\ ~Truthy(frontMatter.externalUrl)) =>
        dom.link = NoLink

\* BlogBanner rendered with a banner image, an overlay and the empty string
\* as externalUrl
C8_Witness ==
    /\ view = "banner"
    /\ frontMatter.externalUrl = Str(<<>>)
    /\ Truthy(frontMatter.banner)
    /\ frontMatter.bannerComponent
    /\ dom.image
    /\ ~dom.link.rendered

\* the label the ordered classification gives the text s
PlatformLabel(s) ==
    CASE LogRocketMarker \in MarkersIn(s)    -> "LogRocket"
      [] MediumMarker \in MarkersIn(s)       -> "Medium"
      [] FreeCodeCampMarker \in MarkersIn(s) -> "FreeCodeCamp"
      [] OTHER                               -> "external"

\* C9: the page BlogLayout renders for a post with a banner image and a
\* non-empty externalUrl shows a banner link labelled with the platform of
\* that externalUrl.
C9_PageShowsPlatformLink ==
    (/\ view = "page"
     /\ Truthy(frontMatter.banner)
     /\ Truthy(frontMatter.externalUrl)) =>
        /\ dom.link.rendered
        /\ dom.link.label = PlatformLabel(Url)

\* the least index of s that holds one of the tokens, Len(s) + 1 if none
FirstIndex(s, tokens) ==
    IF \E i \in 1..Len(s) : s[i] \in tokens
    THEN CHOOSE i \in 1..Len(s) :
            s[i] \in tokens /\ \A j \in 1..(i - 1) : s[j] \notin tokens
    ELSE Len(s) + 1

\* host and path of the URL s: what follows the scheme and the userinfo,
\* up to the query string or fragment
HostAndPath(s) ==
    LET afterScheme == IF s # <<>> /\ s[1] = "https://" THEN 2 ELSE 1
        authorityEnd == FirstIndex(s, {"/", "?", "#"}) - 1
        at == FirstIndex(s, {"@"})
        start == IF at <= authorityEnd THEN at + 1 ELSE afterScheme
    IN  SubSeq(s, start, FirstIndex(s, {"?", "#"}) - 1)

\* C10 as claimed: a link for a URL whose host and path contain no platform
\* marker reads "external".
C10_HostAndPathDecide ==
    (LinkShown /\ MarkersIn(HostAndPath(Url)) = {}) =>
        dom.link.label = "external"

\* C10: the classification searches the whole externalUrl: the link reads
\* "external" exactly when no platform marker occurs anywhere in the
\* string, so a marker in the userinfo, query string or fragment selects
\* its platform also when host and path contain none.
C10_WholeUrlDecides ==
    LinkShown => (dom.link.label = "external" <=> MarkersIn(Url) = {})

\* a link labelled "LogRocket" for https://example.com/foo?ref=blog.logrocket.com
C10_Witness ==
    /\ LinkShown
    /\ Url = <<"https://", "example.", "com", "/", "foo", "?", "ref=">>
               \o LogRocketMarker
    /\ MarkersIn(HostAndPath(Url)) = {}
    /\ dom.link.label = "LogRocket"

\* the label and icon pairs of the classification
PlatformLinks ==
    { <<"LogRocket", "IoMdRocket">>, <<"Medium", "FaMedium">>,
      <<"FreeCodeCamp", "FaFreeCodeCamp">>, <<"external", "">> }

\* C13: for every string (and for undefined) as externalUrl BlogBanner
\* renders: the render is always possible, and it ends with no link or
\* with a link that carries one of the four labels with its icon.
C13_LabelerNeverFails ==
    /\ view = "none" => ENABLED RenderBlogBanner
    /\ view = "banner" =>
          \/ dom.link = NoLink
          \/ /\ dom.link.rendered
             /\ <<dom.link.label, dom.link.icon>> \in PlatformLinks

\* a link labelled "external" for the string "foo", which is no URL
C13_Witness ==
    /\ LinkShown
    /\ Url = <<"foo">>
    /\ dom.link.label = "external"
    /\ dom.link.icon = ""

\* ---------------------------------------------------------------------
\* Properties of the App
\* ---------------------------------------------------------------------

RECURSIVE SpecInsert(_, _)
SpecInsert(s, x) ==
    IF s = <<>> THEN <<x>>
    ELSE IF ~NotBefore(Head(s).publishedAt, x.publishedAt)
    THEN <<x>> \o s
    ELSE <<Head(s)>> \o SpecInsert(Tail(s), x)

\* the posts s by descending publishedAt
RECURSIVE SpecSorted(_)
SpecSorted(s) ==
    IF s = <<>> THEN <<>>
    ELSE SpecInsert(SpecSorted(SubSeq(s, 1, Len(s) - 1)), s[Len(s)])

\* one step of the specified fold: post p joins the most recently created
\* group when that group carries the label of p's month, and opens a new
\* group behind it otherwise; no other group is looked at
SpecStep(groups, p) ==
    LET label == LabelOf(<<p.publishedAt[1], p.publishedAt[2]>>)
        n     == Len(groups)
    IN  IF n > 0 /\ groups[n].month = label
        THEN [groups EXCEPT ![n].blogPosts = Append(@, p)]
        ELSE Append(groups, [month       |-> label,
                             monthNumber |-> p.publishedAt[2] - 1,
                             blogPosts   |-> <<p>>])

\* the specified fold over the first i posts of s
RECURSIVE SpecFold(_, _)
SpecFold(s, i) ==
    IF i = 0 THEN <<>> ELSE SpecStep(SpecFold(s, i - 1), s[i])

\* the group sequence the specified algorithm gives for the posts s
SpecGroups(s) == SpecFold(SpecSorted(s), Len(s))

\* C21: the groups getStaticProps returns, found by looking for the label
\* among all groups made so far, are the group sequence of the specified
\* algorithm, which sorts the posts newest first and compares each label
\* with the most recently created group only.
C21_FindAmongAllIsLastGroup ==
    pc = "done" => props.groups = SpecGroups(loaded)

\* a run on three posts whose loader put a post of July 2021 between two
\* posts of August 2021
C21_Witness ==
    /\ pc = "done"
    /\ Len(loaded) = 3
    /\ loaded[1].publishedAt = <<2021, 8, 9>>
    /\ loaded[2].publishedAt = <<2021, 7, 14>>
    /\ loaded[3].publishedAt = <<2021, 8, 31>>
    /\ Len(props.groups) = 2

\* C22: the sort and the fold run only once the load has resolved, and on
\* the whole list: while the load is pending no post is in the array and
\* no group is returned, and a step that ends getStaticProps, with its
\* groups or with an exception, starts where the array holds every post
\* the loader resolved to.
C22_GroupingAfterLoad ==
    /\ [](pc = "await" => (blogPosts = <<>> /\ props = NoProps))
    /\ [][(pc' \in {"done", "failed"} /\ pc' # pc)
             => (pc = "loaded" /\ blogPosts = loaded)]_vars

\* a run that returned groups holding each of MaxPosts loaded posts
C22_Witness ==
    /\ pc = "done"
    /\ Len(loaded) = MaxPosts
    /\ Len(blogPosts) = MaxPosts
    /\ \A i \in 1..MaxPosts : loaded[i] \in GroupedPosts

\* no two of the groups gs carry the same label
DistinctLabels(gs) ==
    \A g, h \in 1..Len(gs) : gs[g].month = gs[h].month => g = h

\* C23: the labels of the returned groups are pairwise distinct, and so
\* are the labels of the groups the fold makes of the posts in the order
\* the loader gave them, sorted or not.
C23_LabelsDistinct ==
    /\ pc = "done" => DistinctLabels(props.groups)
    /\ LET unsorted == reduce(loaded)
       IN  ~unsorted.threw => DistinctLabels(unsorted.value)

\* a run whose loader put a post of March 2022 between two posts of
\* August 2022: the fold makes two groups of them in either order
C23_Witness ==
    /\ pc = "done"
    /\ Len(loaded) = 3
    /\ loaded[1].publishedAt = <<2022, 8, 1>>
    /\ loaded[2].publishedAt = <<2022, 3, 3>>
    /\ loaded[3].publishedAt = <<2022, 8, 1>>
    /\ Len(props.groups) = 2
    /\ Len(reduce(loaded).value) = 2

\* the <<year, month>> pairs of the loaded posts
LoadedMonths ==
    { <<loaded[i].publishedAt[1], loaded[i].publishedAt[2]>> :
        i \in 1..Len(loaded) }

\* C24: there are as many returned groups as the loaded posts have
\* distinct pairs of year and month, and every returned group holds at
\* least one post.
C24_OneGroupPerMonth ==
    pc = "done" =>
        /\ Len(props.groups) = Cardinality(LoadedMonths)
        /\ \A g \in 1..Len(props.groups) :
              Len(props.groups[g].blogPosts) >= 1

\* a run on posts of August 2021, August 2022 and August 2021 again: the
\* same month name in two years
C24_Witness ==
    /\ pc = "done"
    /\ Len(loaded) = 3
    /\ loaded[1].publishedAt = <<2021, 8, 9>>
    /\ loaded[2].publishedAt = <<2022, 8, 1>>
    /\ loaded[3].publishedAt = <<2021, 8, 31>>
    /\ Len(props.groups) = 2

\* C25: two loaded posts with the same publishedAt are returned in one
\* group, the one the loader had first ahead of the other.
C25_TiesKeepInputOrder ==
    pc = "done" =>
        \A i, j \in 1..Len(loaded) :
            (i < j /\ loaded[i].publishedAt = loaded[j].publishedAt) =>
                \E x \in PlacesOf(loaded[i]), y \in PlacesOf(loaded[j]) :
                    x[1] = y[1] /\ x[2] < y[2]

\* a run on two posts of 2021-10-07 with a newer post between them: the
\* sort moves the newer post ahead of both
C25_Witness ==
    /\ pc = "done"
    /\ Len(loaded) = 3
    /\ loaded[1].publishedAt = <<2021, 10, 7>>
    /\ loaded[2].publishedAt = <<2022, 9, 12>>
    /\ loaded[3].publishedAt = <<2021, 10, 7>>
    /\ blogPosts = <<loaded[2], loaded[1], loaded[3]>>

\* ---------------------------------------------------------------------
\* Properties of the banner and the post page, continued
\* ---------------------------------------------------------------------

\* C26: BlogBanner shows the external link exactly when both the banner
\* and the externalUrl are non-empty strings; without a banner image there
\* is no link for an externalUrl, with or without the bannerComponent
\* overlay.
C26_LinkNeedsBannerAndUrl ==
    view = "banner" =>
        /\ dom.link.rendered <=>
              (Truthy(frontMatter.banner) /\ Truthy(frontMatter.externalUrl))
        /\ ~Truthy(frontMatter.banner) => (~dom.image /\ dom.link = NoLink)
        /\ dom.overlay <=> frontMatter.bannerComponent

\* a banner rendered for a post with a LogRocket URL and a
\* bannerComponent but no banner image: the overlay is shown, no link
C26_Witness ==
    /\ view = "banner"
    /\ frontMatter.banner = Undefined
    /\ frontMatter.bannerComponent
    /\ Occurs(LogRocketMarker, Url)
    /\ dom.overlay
    /\ ~dom.link.rendered

\* C27: rendered from the same props, the older and the newer BlogBanner
\* show a link in the same cases, namely when banner and externalUrl are
\* both non-empty, and with the same href; the older link always reads
\* LogRocket, and the newer one reads the same exactly when the URL
\* contains "blog.logrocket.com" and reads Medium, FreeCodeCamp or
\* external otherwise.
C27_OldAndNewBanner ==
    view = "both" =>
        /\ dom.link.rendered <=> domOld.link.rendered
        /\ dom.link.rendered <=>
              (Truthy(frontMatter.banner) /\ Truthy(frontMatter.externalUrl))
        /\ dom.link.href = domOld.link.href
        /\ dom.link.rendered =>
              /\ domOld.link.label = "LogRocket"
              /\ (dom.link.label = domOld.link.label) <=>
                    Occurs(LogRocketMarker, Url)
              /\ ~Occurs(LogRocketMarker, Url) =>
                    dom.link.label \in {"Medium", "FreeCodeCamp", "external"}

\* both banners rendered for a post on Medium: the newer link reads
\* Medium, the older one LogRocket, both lead to the same URL
C27_Witness ==
    /\ view = "both"
    /\ dom.link.rendered
    /\ domOld.link.rendered
    /\ dom.link.label = "Medium"
    /\ domOld.link.label = "LogRocket"
    /\ dom.link.href = domOld.link.href

\* C28: the canonical URL of a rendered post page is the site URL, "blog/"
\* and the slug of the post; it is the URL of no post with another slug;
\* and the Open Graph url, the breadcrumb item at position 2 and the url
\* of the BlogJsonLd are that same URL.
C28_OneUrlPerPost ==
    view = "page" =>
        /\ page.seo.canonical = websiteUrl \o << "blog/" >> \o frontMatter.slug
        /\ \A other \in PageSlugs :
              page.seo.canonical = websiteUrl \o << "blog/" >> \o other
                  => other = frontMatter.slug
        /\ page.seo.openGraph.url = page.seo.canonical
        /\ \A i \in 1..Len(page.seo.breadcrumb) :
              page.seo.breadcrumb[i].position = 2 =>
                  page.seo.breadcrumb[i].item = page.seo.canonical
        /\ \E i \in 1..Len(page.seo.breadcrumb) :
              page.seo.breadcrumb[i].position = 2
        /\ page.seo.jsonLd.url = page.seo.canonical

\* the page of the post whose slug begins with the slug of another post
C28_Witness ==
    /\ view = "page"
    /\ frontMatter.slug = << Slugs[1], "-", "2" >>
    /\ page.seo.canonical = << "websiteUrl", "blog/", Slugs[1], "-", "2" >>
    /\ page.seo.breadcrumb[2].item = page.seo.canonical

\* ---------------------------------------------------------------------
\* Properties of the App, continued
\* ---------------------------------------------------------------------

\* C29: a step that completes a route change in the mounted App leaves
\* document.body.scrollTop at 0 whatever it was, and changes neither the
\* color mode, what the browser stores, the route nor anything outside
\* the App.
C29_RouteChangeScrollsToTop ==
    [][(mounted /\ mounted' /\ routeChange /\ ~routeChange') =>
          /\ scrollTop' = 0
          /\ UNCHANGED <<initialColorMode, colorMode, localStorage, cookie,
                         toggles, route>>
          /\ UNCHANGED otherVars]_vars

\* a route change to a post completed on a page that was scrolled down
\* as far as it goes, after a click on the switcher
C29_Witness ==
    /\ mounted
    /\ ~routeChange
    /\ route = "/blog/post"
    /\ scrollBefore = MaxScroll
    /\ scrollTop = 0
    /\ toggles = 1

\* ---------------------------------------------------------------------
\* Properties of the index builder: monthNumber
\* ---------------------------------------------------------------------

\* C30: the monthNumber of every returned group is the zero-based index,
\* 0 for January to 11 for December, of the month of the publishedAt of
\* each of its posts; the groups are in the order of their dates where the
\* monthNumbers ascend as well as where they descend.
C30_MonthNumberZeroBased ==
    pc = "done" =>
        /\ \A g \in 1..Len(props.groups) :
              /\ props.groups[g].monthNumber \in 0..11
              /\ \A j \in 1..Len(props.groups[g].blogPosts) :
                    props.groups[g].monthNumber =
                        props.groups[g].blogPosts[j].publishedAt[2] - 1
        /\ \A g \in 1..(Len(props.groups) - 1) :
              /\ NotBefore(props.groups[g].blogPosts[1].publishedAt,
                           props.groups[g + 1].blogPosts[1].publishedAt)
              /\ props.groups[g].monthNumber < props.groups[g + 1].monthNumber
                    => props.groups[g].blogPosts[1].publishedAt[1] >
                           props.groups[g + 1].blogPosts[1].publishedAt[1]

\* a run that returned March 2022 (monthNumber 2) ahead of October 2021
\* (monthNumber 9), the latter with two posts
C30_Witness ==
    /\ pc = "done"
    /\ Len(props.groups) = 2
    /\ props.groups[1].month = "March 2022"
    /\ props.groups[1].monthNumber = 2
    /\ props.groups[2].month = "October 2021"
    /\ props.groups[2].monthNumber = 9
    /\ Len(props.groups[2].blogPosts) = 2

====
